---- MODULE Spec2Model ----
(***************************************************************************)
(* solhop-types: the literal/variable encoding (src/lib.rs) and the DIMACS *)
(* CNF/WCNF reader (src/dimacs.rs).                                        *)
(*                                                                         *)
(* Text is modelled as sequences of one-character strings, so that trim,   *)
(* starts_with, the three regular expressions and the integer parsers are  *)
(* computed as the code computes them.  usize and u64 are 64-bit values    *)
(* kept as four 16-bit limbs (least significant first); i32 is an integer  *)
(* within [I32_MIN, I32_MAX].                                              *)
(***************************************************************************)
EXTENDS Integers, Sequences, FiniteSets, TLC

(***************************************************************************)
(* Bounds of the model.                                                    *)
(***************************************************************************)
\* longest input stream, in lines
MaxLines == 3
\* the literal machine tries the indices 0..MaxSmallIdx beside the boundary ones
MaxSmallIdx == 3
\* the literal machine negates a literal at most MaxNot times in a row
MaxNot == 2

(***************************************************************************)
(* Machine integers.                                                       *)
(***************************************************************************)
LIMB_BASE == 65536
I32_MAX == 2147483647
I32_MIN == (-I32_MAX) - 1

\* a usize / u64 value below 2^31
FromNat(n) == << n % LIMB_BASE, n \div LIMB_BASE, 0, 0 >>

USIZE_ZERO == FromNat(0)
USIZE_MAX == << LIMB_BASE - 1, LIMB_BASE - 1, LIMB_BASE - 1, LIMB_BASE - 1 >>

\* a * 10 + d on 64 bits: the wrapped value and the carry out of bit 63
MulAdd10(a, d) ==
    LET t1 == a[1] * 10 + d
        t2 == a[2] * 10 + (t1 \div LIMB_BASE)
        t3 == a[3] * 10 + (t2 \div LIMB_BASE)
        t4 == a[4] * 10 + (t3 \div LIMB_BASE)
    IN  [val |-> << t1 % LIMB_BASE, t2 % LIMB_BASE, t3 % LIMB_BASE, t4 % LIMB_BASE >>,
         carry |-> t4 \div LIMB_BASE]

\* a + b on 64 bits: the wrapped value and the carry out of bit 63
AddU(a, b) ==
    LET t1 == a[1] + b[1]
        t2 == a[2] + b[2] + (t1 \div LIMB_BASE)
        t3 == a[3] + b[3] + (t2 \div LIMB_BASE)
        t4 == a[4] + b[4] + (t3 \div LIMB_BASE)
    IN  [val |-> << t1 % LIMB_BASE, t2 % LIMB_BASE, t3 % LIMB_BASE, t4 % LIMB_BASE >>,
         carry |-> t4 \div LIMB_BASE]

\* a >> 1
Shr1(a) ==
    << (a[1] \div 2) + (a[2] % 2) * (LIMB_BASE \div 2),
       (a[2] \div 2) + (a[3] % 2) * (LIMB_BASE \div 2),
       (a[3] \div 2) + (a[4] % 2) * (LIMB_BASE \div 2),
       a[4] \div 2 >>

\* a & 1
And1(a) == a[1] % 2

\* a ^ 1
Xor1(a) == << IF a[1] % 2 = 0 THEN a[1] + 1 ELSE a[1] - 1, a[2], a[3], a[4] >>

(***************************************************************************)
(* Text.                                                                   *)
(***************************************************************************)
Digits == << "0", "1", "2", "3", "4", "5", "6", "7", "8", "9" >>
IsDigit(c) == \E i \in 1..10 : Digits[i] = c
DigitVal(c) == (CHOOSE i \in 1..10 : Digits[i] = c) - 1
IsSpace(c) == c \in { " ", "\t" }

\* first index >= i of s that holds no whitespace (Len(s) + 1 when there is none)
RECURSIVE SkipSpace(_, _)
SkipSpace(s, i) ==
    IF i <= Len(s) /\ IsSpace(s[i]) THEN SkipSpace(s, i + 1) ELSE i

\* last index of the run of digits that starts at i (i - 1 when s[i] is no digit)
RECURSIVE DigitsEnd(_, _)
DigitsEnd(s, i) ==
    IF i <= Len(s) /\ IsDigit(s[i]) THEN DigitsEnd(s, i + 1) ELSE i - 1

\* last index <= j of s that holds no whitespace (0 when there is none)
RECURSIVE SkipSpaceBack(_, _)
SkipSpaceBack(s, j) ==
    IF j >= 1 /\ IsSpace(s[j]) THEN SkipSpaceBack(s, j - 1) ELSE j

\* str::trim
Trim(s) == SubSeq(s, SkipSpace(s, 1), SkipSpaceBack(s, Len(s)))

\* str::starts_with(char)
StartsWith(s, c) == Len(s) >= 1 /\ s[1] = c

(***************************************************************************)
(* str::parse for the three integer types the reader uses.                 *)
(***************************************************************************)
RECURSIVE ParseDigitsU64(_, _, _)
ParseDigitsU64(tok, i, acc) ==
    IF i > Len(tok) THEN [ok |-> TRUE, val |-> acc]
    ELSE IF ~IsDigit(tok[i]) THEN [ok |-> FALSE, val |-> USIZE_ZERO]
    ELSE LET m == MulAdd10(acc, DigitVal(tok[i]))
         IN  IF m.carry # 0 THEN [ok |-> FALSE, val |-> USIZE_ZERO]
             ELSE ParseDigitsU64(tok, i + 1, m.val)

\* parse::<u64> and parse::<usize>: Err on an empty string, a sign without
\* digits, a character that is no digit (a leading '-' is one), or overflow
ParseU64(tok) ==
    IF Len(tok) = 0 THEN [ok |-> FALSE, val |-> USIZE_ZERO]
    ELSE ParseDigitsU64(tok, 1, USIZE_ZERO)

ParseUsize(tok) == ParseU64(tok)

\* the digits of a negative i32 are accumulated downwards, of a positive one upwards
RECURSIVE ParseDigitsI32(_, _, _, _)
ParseDigitsI32(tok, i, acc, neg) ==
    IF i > Len(tok) THEN [ok |-> TRUE, val |-> acc]
    ELSE IF ~IsDigit(tok[i]) THEN [ok |-> FALSE, val |-> 0]
    ELSE LET d == DigitVal(tok[i])
         IN  IF neg
             THEN IF acc < (I32_MIN + d + 9) \div 10 THEN [ok |-> FALSE, val |-> 0]
                  ELSE ParseDigitsI32(tok, i + 1, acc * 10 - d, neg)
             ELSE IF acc > (I32_MAX - d) \div 10 THEN [ok |-> FALSE, val |-> 0]
                  ELSE ParseDigitsI32(tok, i + 1, acc * 10 + d, neg)

\* parse::<i32>
ParseI32(tok) ==
    IF Len(tok) = 0 THEN [ok |-> FALSE, val |-> 0]
    ELSE IF tok[1] = "-"
         THEN IF Len(tok) = 1 THEN [ok |-> FALSE, val |-> 0]
              ELSE ParseDigitsI32(tok, 2, 0, TRUE)
         ELSE ParseDigitsI32(tok, 1, 0, FALSE)

(***************************************************************************)
(* The three regular expressions of the reader.                            *)
(***************************************************************************)
NoMatch == [matched |-> FALSE, caps |-> << >>]

\* ^p\s+<keyword>\s+(\d+)\s+(\d+)  and, when third is set, (?:\s+(\d+))? after it.
\* caps holds the text of the groups that took part in the match.
HeaderCaptures(line, keyword, third) ==
    IF ~StartsWith(line, "p") THEN NoMatch
    ELSE LET k1 == SkipSpace(line, 2)
             k2 == k1 + Len(keyword)
             a1 == SkipSpace(line, k2)
             a2 == DigitsEnd(line, a1)
             b1 == SkipSpace(line, a2 + 1)
             b2 == DigitsEnd(line, b1)
             c1 == SkipSpace(line, b2 + 1)
             c2 == DigitsEnd(line, c1)
         IN  IF /\ k1 > 2
                /\ k2 - 1 <= Len(line)
                /\ SubSeq(line, k1, k2 - 1) = keyword
                /\ a1 > k2
                /\ a2 >= a1
                /\ b1 > a2 + 1
                /\ b2 >= b1
             THEN [matched |-> TRUE,
                   caps |-> IF third /\ c1 > b2 + 1 /\ c2 >= c1
                            THEN << SubSeq(line, a1, a2), SubSeq(line, b1, b2),
                                    SubSeq(line, c1, c2) >>
                            ELSE << SubSeq(line, a1, a2), SubSeq(line, b1, b2) >>]
             ELSE NoMatch

\* Regex::new(r"^p\s+cnf\s+(\d+)\s+(\d+)").captures(line)
re_cnf(line) == HeaderCaptures(line, << "c", "n", "f" >>, FALSE)

\* Regex::new(r"^p\s+wcnf\s+(\d+)\s+(\d+)(?:\s+(\d+))?").captures(line)
re_wcnf(line) == HeaderCaptures(line, << "w", "c", "n", "f" >>, TRUE)

\* Regex::new(r"(-?\d+)").captures_iter(line): the leftmost, longest,
\* non-overlapping matches from index i on, in order
RECURSIVE CapturesIter(_, _)
CapturesIter(line, i) ==
    IF i > Len(line) THEN << >>
    ELSE LET d == IF line[i] = "-" THEN i + 1 ELSE i
             e == DigitsEnd(line, d)
         IN  IF e >= d
             THEN << SubSeq(line, i, e) >> \o CapturesIter(line, e + 1)
             ELSE CapturesIter(line, i + 1)

(***************************************************************************)
(* Var and Lit (src/lib.rs).  A Var and a Lit are their usize field.       *)
(***************************************************************************)
Var_new(index) == index
Var_index(v) == v

\* Lit::new with one `var.0` missing: var.0 + (sign as usize)
Lit_new_NotDoubled(var, sign) ==
    AddU(var, FromNat(IF sign THEN 1 ELSE 0)).val

\* var.0 + var.0 + (sign as usize): the wrapped sum
Lit_new(var, sign) ==
    AddU(AddU(var, var).val, FromNat(IF sign THEN 1 ELSE 0)).val

\* one of the two additions of Lit::new leaves the usize range
Lit_new_overflows(var, sign) ==
    \/ AddU(var, var).carry # 0
    \/ AddU(AddU(var, var).val, FromNat(IF sign THEN 1 ELSE 0)).carry # 0

Var_pos_lit(v) == Lit_new(v, FALSE)
Var_neg_lit(v) == Lit_new(v, TRUE)

UNDEF_LIT == USIZE_MAX

Lit_sign(l) == And1(l) = 1
Lit_var(l) == Shr1(l)
Lit_index(l) == l
\* negation as an increment of the index instead of a flip of its low bit
Lit_not_Increment(l) == AddU(l, FromNat(1)).val

\* impl Not for Lit: Lit(self.0 ^ 1)
Lit_not(l) == Xor1(l)

(***************************************************************************)
(* i32 arithmetic of the clause loop.  With overflow checks (a debug       *)
(* build) an overflow panics, without them (a release build) it wraps.     *)
(***************************************************************************)
I32Abs(l, checks) ==
    IF l = I32_MIN THEN [ok |-> ~checks, val |-> I32_MIN]
    ELSE [ok |-> TRUE, val |-> IF l < 0 THEN -l ELSE l]

I32Sub1(a, checks) ==
    IF a = I32_MIN THEN [ok |-> ~checks, val |-> I32_MAX]
    ELSE [ok |-> TRUE, val |-> a - 1]

\* (x as usize) for an i32 x: sign extension to 64 bits
AsUsize(x) ==
    << x % LIMB_BASE, (x \div LIMB_BASE) % LIMB_BASE,
       IF x < 0 THEN LIMB_BASE - 1 ELSE 0, IF x < 0 THEN LIMB_BASE - 1 ELSE 0 >>

(***************************************************************************)
(* The input streams: every sequence of at most MaxLines of these lines.   *)
(***************************************************************************)
\* "p wcnf 1 2"
L_wcnf_1_2 ==
    << "p", " ", "w", "c", "n", "f", " ", "1", " ", "2" >>
\* "p cnf 2 1"
L_cnf_2_1 ==
    << "p", " ", "c", "n", "f", " ", "2", " ", "1" >>
\* "p  wcnf 3 1 10"
L_wcnf_3_1_10 ==
    << "p", " ", " ", "w", "c", "n", "f", " ", "3", " ", "1", " ", "1", "0" >>
\* "p cnf 1 0"
L_cnf_1_0 ==
    << "p", " ", "c", "n", "f", " ", "1", " ", "0" >>
\* "p cnf x"
L_p_bad ==
    << "p", " ", "c", "n", "f", " ", "x" >>
\* "p cnf 18446744073709551616 1"
L_p_usize_over ==
    << "p", " ", "c", "n", "f", " ", "1", "8", "4", "4", "6", "7", "4", "4", "0", "7", "3", "7", "0", "9", "5", "5", "1", "6", "1", "6", " ", "1" >>
\* "2 1 0"
L_2_1_0 ==
    << "2", " ", "1", " ", "0" >>
\* "3 -1 0"
L_3_m1_0 ==
    << "3", " ", "-", "1", " ", "0" >>
\* "1 -2 0"
L_1_m2_0 ==
    << "1", " ", "-", "2", " ", "0" >>
\* "1 0 2"
L_1_0_2 ==
    << "1", " ", "0", " ", "2" >>
\* "-1 2 0"
L_m1_2_0 ==
    << "-", "1", " ", "2", " ", "0" >>
\* "-2147483648 0"
L_i32_min ==
    << "-", "2", "1", "4", "7", "4", "8", "3", "6", "4", "8", " ", "0" >>
\* "2147483648 2147483647 0"
L_i32_over ==
    << "2", "1", "4", "7", "4", "8", "3", "6", "4", "8", " ", "2", "1", "4", "7", "4", "8", "3", "6", "4", "7", " ", "0" >>
\* "18446744073709551616 1 0"
L_u64_over ==
    << "1", "8", "4", "4", "6", "7", "4", "4", "0", "7", "3", "7", "0", "9", "5", "5", "1", "6", "1", "6", " ", "1", " ", "0" >>
\* " c p cnf 9 9"
L_comment ==
    << " ", "c", " ", "p", " ", "c", "n", "f", " ", "9", " ", "9" >>
\* " "
L_blank ==
    << " " >>
\* "x"
L_no_token ==
    << "x" >>
\* "p wcnf 1 1 18446744073709551616"
L_wcnf_hw_over ==
    << "p", " ", "w", "c", "n", "f", " ", "1", " ", "1", " ", "1", "8", "4", "4", "6", "7", "4", "4", "0", "7", "3", "7", "0", "9", "5", "5", "1", "6", "1", "6" >>

\* "p wcnf 2 1"
L_wcnf_2_1 ==
    << "p", " ", "w", "c", "n", "f", " ", "2", " ", "1" >>

\* "p wcnf 3 5 10"
L_wcnf_3_5_10 ==
    << "p", " ", "w", "c", "n", "f", " ", "3", " ", "5", " ", "1", "0" >>
\* "10 1 0"
L_10_1_0 ==
    << "1", "0", " ", "1", " ", "0" >>

\* well-formed and ill-formed lines whose numbers are small
LinePool ==
    { L_wcnf_1_2, L_wcnf_2_1, L_cnf_2_1, L_wcnf_3_1_10, L_cnf_1_0, L_p_bad,
      L_2_1_0, L_3_m1_0, L_1_m2_0, L_1_0_2,
      L_comment, L_blank, L_no_token }

\* lines whose numbers sit at the limits of i32, u64 and usize
NumPool ==
    { L_wcnf_1_2, L_cnf_2_1, L_p_usize_over, L_wcnf_hw_over,
      L_2_1_0, L_m1_2_0, L_i32_min, L_i32_over, L_u64_over,
      L_comment, L_blank }

\* wcnf headers with and without a hard weight, clause lines whose weight is
\* and is not that hard weight
WeightPool ==
    { L_wcnf_3_5_10, L_wcnf_3_1_10, L_wcnf_1_2, L_cnf_2_1,
      L_10_1_0, L_2_1_0, L_3_m1_0,
      L_comment, L_blank }

RECURSIVE SeqsUpTo(_, _)
SeqsUpTo(S, n) ==
    IF n = 0 THEN { << >> }
    ELSE LET shorter == SeqsUpTo(S, n - 1)
         IN  shorter \cup { Append(q, x) : q \in { r \in shorter : Len(r) = n - 1 }, x \in S }

Inputs == SeqsUpTo(LinePool, MaxLines)
NumInputs == SeqsUpTo(NumPool, MaxLines)
WeightInputs == SeqsUpTo(WeightPool, MaxLines)

\* the indices the literal machine encodes: around 0, around 2^63, around 2^64
HALF_MINUS_2 == << LIMB_BASE - 2, LIMB_BASE - 1, LIMB_BASE - 1, (LIMB_BASE \div 2) - 1 >>
MAX_MINUS_1 == << LIMB_BASE - 2, LIMB_BASE - 1, LIMB_BASE - 1, LIMB_BASE - 1 >>
IndexPool ==
    { AddU(anchor, FromNat(k)).val :
        anchor \in { USIZE_ZERO, HALF_MINUS_2, MAX_MINUS_1 }, k \in 0..MaxSmallIdx }

(***************************************************************************)
(* LBool of src/lib.rs.                                                    *)
(***************************************************************************)
\* enum LBool { True, False, Undef }
LBool == { "True", "False", "Undef" }

\* LBool_not with the Undef arm giving False
LBool_not_UndefIsFalse(x) ==
    CASE x = "True" -> "False"
      [] x = "False" -> "True"
      [] x = "Undef" -> "False"

\* impl Not for LBool
LBool_not(x) ==
    CASE x = "True" -> "False"
      [] x = "False" -> "True"
      [] x = "Undef" -> "Undef"

\* impl From<bool> for LBool
LBool_from(b) == IF b THEN "True" ELSE "False"

(***************************************************************************)
(* State.                                                                  *)
(***************************************************************************)
VARIABLES
    overflow_checks,  \* the build: TRUE panics on integer overflow, FALSE wraps
    input,            \* the lines reader.lines() yields
    pos,              \* index of the next line to read
    pc,               \* "lines" | "return" | "done" | "panicked"
    n_clauses, n_vars, clauses, weights, hard_weight, is_wcnf,
    result,           \* the Dimacs value returned
    arg_index,        \* literal machine: the index given to Var::new
    arg_sign,         \* literal machine: the sign given to Lit::new
    lits,             \* literal machine: the Lit values produced, oldest first
    lit_pc,           \* literal machine: "start" | "made" | "undef" | "panicked"
    arg_bool,         \* literal machine: the bool given to LBool::from
    lbools,           \* literal machine: the LBool values produced, oldest first
    lbool_pc          \* literal machine: "start" | "from" | "variant"

parser_vars ==
    << input, pos, pc, n_clauses, n_vars, clauses, weights, hard_weight, is_wcnf, result >>
lit_vars == << arg_index, arg_sign, lits, lit_pc, arg_bool, lbools, lbool_pc >>
vars == << overflow_checks, parser_vars, lit_vars >>

None == << >>
Some(x) == << x >>
Pending == [variant |-> "Pending"]

\* let mut ... of parse_dimacs_from_buf_reader
ParserStart ==
    /\ pos = 1
    /\ pc = "lines"
    /\ n_clauses = USIZE_ZERO
    /\ n_vars = USIZE_ZERO
    /\ clauses = << >>
    /\ weights = << >>
    /\ hard_weight = None
    /\ is_wcnf = FALSE
    /\ result = Pending

LitStart ==
    /\ lits = << >>
    /\ lit_pc = "start"
    /\ lbools = << >>
    /\ lbool_pc = "start"

LitIdle ==
    /\ arg_index = USIZE_ZERO
    /\ arg_sign = FALSE
    /\ arg_bool = FALSE
    /\ LitStart

ParserIdle ==
    /\ input = << >>
    /\ ParserStart

\* a stream of ordinary lines, either build
Init ==
    /\ overflow_checks \in BOOLEAN
    /\ input \in Inputs
    /\ ParserStart
    /\ LitIdle

\* a stream of lines with boundary numbers, either build
InitNum ==
    /\ overflow_checks \in BOOLEAN
    /\ input \in NumInputs
    /\ ParserStart
    /\ LitIdle

\* a stream of weighted-format lines, either build
InitWeights ==
    /\ overflow_checks \in BOOLEAN
    /\ input \in WeightInputs
    /\ ParserStart
    /\ LitIdle

\* an index and a sign for the literal constructors, either build
InitLit ==
    /\ overflow_checks \in BOOLEAN
    /\ arg_index \in IndexPool
    /\ arg_sign \in BOOLEAN
    /\ arg_bool \in BOOLEAN
    /\ LitStart
    /\ ParserIdle

(***************************************************************************)
(* parse_dimacs_from_buf_reader, one action per path of the loop body.     *)
(***************************************************************************)
\* let line = line.unwrap(); let line = line.trim();
Line == Trim(input[pos])

Reading == pc = "lines" /\ pos <= Len(input)

\* the parser leaves the build and the literal machine alone, and conversely
LitFrame == UNCHANGED << overflow_checks, lit_vars >>
ParserFrame == UNCHANGED << overflow_checks, parser_vars >>

Panic ==
    /\ pc' = "panicked"
    /\ UNCHANGED << input, pos, n_clauses, n_vars, clauses, weights, hard_weight,
                    is_wcnf, result >>

ClauseFailed == [ok |-> FALSE, cl |-> << >>, weight |-> USIZE_ZERO]

\* ClauseLoop with the `continue` after the weight forgotten: the weight token
\* goes on to become a literal as well
RECURSIVE ClauseLoop_WeightAlsoLiteral(_, _, _, _, _, _)
ClauseLoop_WeightAlsoLiteral(toks, i, cl, weight, wcnf, checks) ==
    IF i > Len(toks) THEN [ok |-> TRUE, cl |-> cl, weight |-> weight]
    ELSE LET w == IF i = 1 /\ wcnf THEN ParseU64(toks[i])
                  ELSE [ok |-> TRUE, val |-> weight]
             l == ParseI32(toks[i])
             a == I32Abs(l.val, checks)
             b == I32Sub1(a.val, checks)
             var == Var_new(AsUsize(b.val))
             lit == IF l.val > 0 THEN Var_pos_lit(var) ELSE Var_neg_lit(var)
         IN  IF ~w.ok \/ ~l.ok THEN ClauseFailed
             ELSE IF l.val = 0
             THEN ClauseLoop_WeightAlsoLiteral(toks, i + 1, cl, w.val, wcnf, checks)
             ELSE IF ~a.ok \/ ~b.ok \/ (checks /\ Lit_new_overflows(var, ~(l.val > 0)))
             THEN ClauseFailed
             ELSE ClauseLoop_WeightAlsoLiteral(toks, i + 1, Append(cl, lit), w.val, wcnf,
                                               checks)

\* ClauseLoop with the `- 1` of the variable index forgotten: token n names
\* variable |n| instead of |n| - 1
RECURSIVE ClauseLoop_OneBasedVar(_, _, _, _, _, _)
ClauseLoop_OneBasedVar(toks, i, cl, weight, wcnf, checks) ==
    IF i > Len(toks) THEN [ok |-> TRUE, cl |-> cl, weight |-> weight]
    ELSE IF i = 1 /\ wcnf
    THEN LET w == ParseU64(toks[i])
         IN  IF w.ok THEN ClauseLoop_OneBasedVar(toks, i + 1, cl, w.val, wcnf, checks)
             ELSE ClauseFailed
    ELSE LET l == ParseI32(toks[i])
             a == I32Abs(l.val, checks)
             var == Var_new(AsUsize(a.val))
             lit == IF l.val > 0 THEN Var_pos_lit(var) ELSE Var_neg_lit(var)
         IN  IF ~l.ok THEN ClauseFailed
             ELSE IF l.val = 0 THEN ClauseLoop_OneBasedVar(toks, i + 1, cl, weight, wcnf, checks)
             ELSE IF ~a.ok \/ (checks /\ Lit_new_overflows(var, ~(l.val > 0)))
             THEN ClauseFailed
             ELSE ClauseLoop_OneBasedVar(toks, i + 1, Append(cl, lit), weight, wcnf, checks)

\* ClauseLoop with a `0` token ending the clause: the tokens after it are
\* dropped
RECURSIVE ClauseLoop_ZeroEndsClause(_, _, _, _, _, _)
ClauseLoop_ZeroEndsClause(toks, i, cl, weight, wcnf, checks) ==
    IF i > Len(toks) THEN [ok |-> TRUE, cl |-> cl, weight |-> weight]
    ELSE IF i = 1 /\ wcnf
    THEN LET w == ParseU64(toks[i])
         IN  IF w.ok THEN ClauseLoop_ZeroEndsClause(toks, i + 1, cl, w.val, wcnf, checks)
             ELSE ClauseFailed
    ELSE LET l == ParseI32(toks[i])
             a == I32Abs(l.val, checks)
             b == I32Sub1(a.val, checks)
             var == Var_new(AsUsize(b.val))
             lit == IF l.val > 0 THEN Var_pos_lit(var) ELSE Var_neg_lit(var)
         IN  IF ~l.ok THEN ClauseFailed
             ELSE IF l.val = 0 THEN [ok |-> TRUE, cl |-> cl, weight |-> weight]
             ELSE IF ~a.ok \/ ~b.ok \/ (checks /\ Lit_new_overflows(var, ~(l.val > 0)))
             THEN ClauseFailed
             ELSE ClauseLoop_ZeroEndsClause(toks, i + 1, Append(cl, lit), weight, wcnf, checks)

\* ClauseLoop with the first token taken as a weight whatever the format
RECURSIVE ClauseLoop_AlwaysWeight(_, _, _, _, _, _)
ClauseLoop_AlwaysWeight(toks, i, cl, weight, wcnf, checks) ==
    IF i > Len(toks) THEN [ok |-> TRUE, cl |-> cl, weight |-> weight]
    ELSE IF i = 1
    THEN LET w == ParseU64(toks[i])
         IN  IF w.ok THEN ClauseLoop_AlwaysWeight(toks, i + 1, cl, w.val, wcnf, checks)
             ELSE ClauseFailed
    ELSE LET l == ParseI32(toks[i])
             a == I32Abs(l.val, checks)
             b == I32Sub1(a.val, checks)
             var == Var_new(AsUsize(b.val))
             lit == IF l.val > 0 THEN Var_pos_lit(var) ELSE Var_neg_lit(var)
         IN  IF ~l.ok THEN ClauseFailed
             ELSE IF l.val = 0 THEN ClauseLoop_AlwaysWeight(toks, i + 1, cl, weight, wcnf, checks)
             ELSE IF ~a.ok \/ ~b.ok \/ (checks /\ Lit_new_overflows(var, ~(l.val > 0)))
             THEN ClauseFailed
             ELSE ClauseLoop_AlwaysWeight(toks, i + 1, Append(cl, lit), weight, wcnf, checks)

\* ClauseLoop with the minus sign of the weight token dropped before it is
\* parsed
RECURSIVE ClauseLoop_WeightSignDropped(_, _, _, _, _, _)
ClauseLoop_WeightSignDropped(toks, i, cl, weight, wcnf, checks) ==
    IF i > Len(toks) THEN [ok |-> TRUE, cl |-> cl, weight |-> weight]
    ELSE IF i = 1 /\ wcnf
    THEN LET w == ParseU64(IF toks[i][1] = "-" THEN Tail(toks[i]) ELSE toks[i])
         IN  IF w.ok THEN ClauseLoop_WeightSignDropped(toks, i + 1, cl, w.val, wcnf, checks)
             ELSE ClauseFailed
    ELSE LET l == ParseI32(toks[i])
             a == I32Abs(l.val, checks)
             b == I32Sub1(a.val, checks)
             var == Var_new(AsUsize(b.val))
             lit == IF l.val > 0 THEN Var_pos_lit(var) ELSE Var_neg_lit(var)
         IN  IF ~l.ok THEN ClauseFailed
             ELSE IF l.val = 0 THEN ClauseLoop_WeightSignDropped(toks, i + 1, cl, weight, wcnf, checks)
             ELSE IF ~a.ok \/ ~b.ok \/ (checks /\ Lit_new_overflows(var, ~(l.val > 0)))
             THEN ClauseFailed
             ELSE ClauseLoop_WeightSignDropped(toks, i + 1, Append(cl, lit), weight, wcnf, checks)

\* for (i, cap) in re.captures_iter(&line).enumerate() { ... }, from token i on
\* (i is 1-based here, so the code's i == 0 is i = 1)
RECURSIVE ClauseLoop(_, _, _, _, _, _)
ClauseLoop(toks, i, cl, weight, wcnf, checks) ==
    IF i > Len(toks) THEN [ok |-> TRUE, cl |-> cl, weight |-> weight]
    ELSE IF i = 1 /\ wcnf
    THEN LET w == ParseU64(toks[i])
         IN  IF w.ok THEN ClauseLoop(toks, i + 1, cl, w.val, wcnf, checks)
             ELSE ClauseFailed
    ELSE LET l == ParseI32(toks[i])
             a == I32Abs(l.val, checks)
             b == I32Sub1(a.val, checks)
             var == Var_new(AsUsize(b.val))
             lit == IF l.val > 0 THEN Var_pos_lit(var) ELSE Var_neg_lit(var)
         IN  IF ~l.ok THEN ClauseFailed
             ELSE IF l.val = 0 THEN ClauseLoop(toks, i + 1, cl, weight, wcnf, checks)
             ELSE IF ~a.ok \/ ~b.ok \/ (checks /\ Lit_new_overflows(var, ~(l.val > 0)))
             THEN ClauseFailed
             ELSE ClauseLoop(toks, i + 1, Append(cl, lit), weight, wcnf, checks)

\* if line.is_empty() { continue; }
ReadBlank ==
    /\ Reading
    /\ LitFrame
    /\ Len(Line) = 0
    /\ pos' = pos + 1
    /\ UNCHANGED << input, pc, n_clauses, n_vars, clauses, weights, hard_weight,
                    is_wcnf, result >>

\* ReadComment without its `continue`: the comment's numbers become a clause
ReadComment_FallsThrough ==
    /\ Reading
    /\ LitFrame
    /\ Len(Line) # 0
    /\ StartsWith(Line, "c")
    /\ LET r == ClauseLoop(CapturesIter(Line, 1), 1, << >>, USIZE_ZERO, is_wcnf,
                           overflow_checks)
       IN  IF r.ok
           THEN /\ clauses' = Append(clauses, r.cl)
                /\ weights' = Append(weights, r.weight)
                /\ pos' = pos + 1
                /\ pc' = IF FromNat(Len(clauses')) = n_clauses THEN "return" ELSE "lines"
                /\ UNCHANGED << input, n_clauses, n_vars, hard_weight, is_wcnf, result >>
           ELSE Panic

\* if line.starts_with('c') { continue; }
ReadComment ==
    /\ Reading
    /\ LitFrame
    /\ Len(Line) # 0
    /\ StartsWith(Line, "c")
    /\ pos' = pos + 1
    /\ UNCHANGED << input, pc, n_clauses, n_vars, clauses, weights, hard_weight,
                    is_wcnf, result >>

\* HeaderEffect with an unmatched line putting the header values back to
\* their defaults
HeaderEffect_UnmatchedResets(line, cur) ==
    LET cnf == re_cnf(line)
        wcnf == re_wcnf(line)
    IN  IF cnf.matched
        THEN LET v == ParseUsize(cnf.caps[1])
                 c == ParseUsize(cnf.caps[2])
             IN  [ok |-> v.ok /\ c.ok,
                  n_vars |-> v.val,
                  n_clauses |-> c.val,
                  is_wcnf |-> cur.is_wcnf,
                  hard_weight |-> cur.hard_weight]
        ELSE IF wcnf.matched
        THEN LET v == ParseUsize(wcnf.caps[1])
                 c == ParseUsize(wcnf.caps[2])
                 h == IF Len(wcnf.caps) = 3 THEN ParseU64(wcnf.caps[3])
                      ELSE [ok |-> TRUE, val |-> USIZE_ZERO]
             IN  [ok |-> v.ok /\ c.ok /\ h.ok,
                  n_vars |-> v.val,
                  n_clauses |-> c.val,
                  is_wcnf |-> TRUE,
                  hard_weight |-> IF Len(wcnf.caps) = 3 THEN Some(h.val) ELSE None]
        ELSE [ok |-> TRUE,
              n_vars |-> USIZE_ZERO,
              n_clauses |-> USIZE_ZERO,
              is_wcnf |-> FALSE,
              hard_weight |-> None]

\* the body of the 'p' branch: the header values after the line, given the
\* values cur before it; ok is FALSE when an unwrap() of a parse panics
HeaderEffect(line, cur) ==
    LET cnf == re_cnf(line)
        wcnf == re_wcnf(line)
    IN  IF cnf.matched
        THEN LET v == ParseUsize(cnf.caps[1])
                 c == ParseUsize(cnf.caps[2])
             IN  [ok |-> v.ok /\ c.ok,
                  n_vars |-> v.val,
                  n_clauses |-> c.val,
                  is_wcnf |-> cur.is_wcnf,
                  hard_weight |-> cur.hard_weight]
        ELSE IF wcnf.matched
        THEN LET v == ParseUsize(wcnf.caps[1])
                 c == ParseUsize(wcnf.caps[2])
                 h == IF Len(wcnf.caps) = 3 THEN ParseU64(wcnf.caps[3])
                      ELSE [ok |-> TRUE, val |-> USIZE_ZERO]
             IN  [ok |-> v.ok /\ c.ok /\ h.ok,
                  n_vars |-> v.val,
                  n_clauses |-> c.val,
                  is_wcnf |-> TRUE,
                  hard_weight |-> IF Len(wcnf.caps) = 3 THEN Some(h.val) ELSE None]
        ELSE [ok |-> TRUE,
              n_vars |-> cur.n_vars,
              n_clauses |-> cur.n_clauses,
              is_wcnf |-> cur.is_wcnf,
              hard_weight |-> cur.hard_weight]

\* else if line.starts_with('p') { ... }
ReadHeader ==
    /\ Reading
    /\ LitFrame
    /\ Len(Line) # 0
    /\ ~StartsWith(Line, "c")
    /\ StartsWith(Line, "p")
    /\ LET h == HeaderEffect(Line, [n_vars |-> n_vars, n_clauses |-> n_clauses,
                                    is_wcnf |-> is_wcnf, hard_weight |-> hard_weight])
       IN  IF h.ok
           THEN /\ n_vars' = h.n_vars
                /\ n_clauses' = h.n_clauses
                /\ is_wcnf' = h.is_wcnf
                /\ hard_weight' = h.hard_weight
                /\ pos' = pos + 1
                /\ UNCHANGED << input, pc, clauses, weights, result >>
           ELSE Panic

\* ReadClause with the stop test made before the push
ReadClause_TestBeforePush ==
    /\ Reading
    /\ LitFrame
    /\ Len(Line) # 0
    /\ ~StartsWith(Line, "c")
    /\ ~StartsWith(Line, "p")
    /\ LET r == ClauseLoop(CapturesIter(Line, 1), 1, << >>, USIZE_ZERO, is_wcnf,
                           overflow_checks)
       IN  IF r.ok
           THEN /\ clauses' = Append(clauses, r.cl)
                /\ weights' = Append(weights, r.weight)
                /\ pos' = pos + 1
                /\ pc' = IF FromNat(Len(clauses)) = n_clauses THEN "return" ELSE "lines"
                /\ UNCHANGED << input, n_clauses, n_vars, hard_weight, is_wcnf, result >>
           ELSE Panic

\* a >= b on 64 bits
UGeq(a, b) ==
    \/ a = b
    \/ \E i \in 1..4 : a[i] > b[i] /\ \A j \in (i + 1)..4 : a[j] = b[j]

\* ReadClause with the stop test `>=` in place of `==`
ReadClause_StopAtLeast ==
    /\ Reading
    /\ LitFrame
    /\ Len(Line) # 0
    /\ ~StartsWith(Line, "c")
    /\ ~StartsWith(Line, "p")
    /\ LET r == ClauseLoop(CapturesIter(Line, 1), 1, << >>, USIZE_ZERO, is_wcnf,
                           overflow_checks)
       IN  IF r.ok
           THEN /\ clauses' = Append(clauses, r.cl)
                /\ weights' = Append(weights, r.weight)
                /\ pos' = pos + 1
                /\ pc' = IF UGeq(FromNat(Len(clauses')), n_clauses) THEN "return"
                         ELSE "lines"
                /\ UNCHANGED << input, n_clauses, n_vars, hard_weight, is_wcnf, result >>
           ELSE Panic

\* ReadClause with the literals checked against n_vars: a clause that names a
\* variable index >= n_vars is refused
ReadClause_RangeChecked ==
    /\ Reading
    /\ LitFrame
    /\ Len(Line) # 0
    /\ ~StartsWith(Line, "c")
    /\ ~StartsWith(Line, "p")
    /\ LET r == ClauseLoop(CapturesIter(Line, 1), 1, << >>, USIZE_ZERO, is_wcnf,
                           overflow_checks)
       IN  IF r.ok /\ \A i \in 1..Len(r.cl) :
                         ~UGeq(Var_index(Lit_var(r.cl[i])), n_vars)
           THEN /\ clauses' = Append(clauses, r.cl)
                /\ weights' = Append(weights, r.weight)
                /\ pos' = pos + 1
                /\ pc' = IF FromNat(Len(clauses')) = n_clauses THEN "return" ELSE "lines"
                /\ UNCHANGED << input, n_clauses, n_vars, hard_weight, is_wcnf, result >>
           ELSE Panic

\* ReadClause without the break: the loop goes on to the next line whatever
\* the number of clauses collected
ReadClause_NoBreak ==
    /\ Reading
    /\ LitFrame
    /\ Len(Line) # 0
    /\ ~StartsWith(Line, "c")
    /\ ~StartsWith(Line, "p")
    /\ LET r == ClauseLoop(CapturesIter(Line, 1), 1, << >>, USIZE_ZERO, is_wcnf,
                           overflow_checks)
       IN  IF r.ok
           THEN /\ clauses' = Append(clauses, r.cl)
                /\ weights' = Append(weights, r.weight)
                /\ pos' = pos + 1
                /\ pc' = "lines"
                /\ UNCHANGED << input, n_clauses, n_vars, hard_weight, is_wcnf, result >>
           ELSE Panic

\* ReadClause with the weight pushed in WCNF mode only
ReadClause_WeightOnlyInWcnf ==
    /\ Reading
    /\ LitFrame
    /\ Len(Line) # 0
    /\ ~StartsWith(Line, "c")
    /\ ~StartsWith(Line, "p")
    /\ LET r == ClauseLoop(CapturesIter(Line, 1), 1, << >>, USIZE_ZERO, is_wcnf,
                           overflow_checks)
       IN  IF r.ok
           THEN /\ clauses' = Append(clauses, r.cl)
                /\ weights' = IF is_wcnf THEN Append(weights, r.weight) ELSE weights
                /\ pos' = pos + 1
                /\ pc' = IF FromNat(Len(clauses')) = n_clauses THEN "return" ELSE "lines"
                /\ UNCHANGED << input, n_clauses, n_vars, hard_weight, is_wcnf, result >>
           ELSE Panic

\* else { ... clauses.push(cl); weights.push(weight); if ... { break; } }
ReadClause ==
    /\ Reading
    /\ LitFrame
    /\ Len(Line) # 0
    /\ ~StartsWith(Line, "c")
    /\ ~StartsWith(Line, "p")
    /\ LET r == ClauseLoop(CapturesIter(Line, 1), 1, << >>, USIZE_ZERO, is_wcnf,
                           overflow_checks)
       IN  IF r.ok
           THEN /\ clauses' = Append(clauses, r.cl)
                /\ weights' = Append(weights, r.weight)
                /\ pos' = pos + 1
                /\ pc' = IF FromNat(Len(clauses')) = n_clauses THEN "return" ELSE "lines"
                /\ UNCHANGED << input, n_clauses, n_vars, hard_weight, is_wcnf, result >>
           ELSE Panic

\* reader.lines() is exhausted: the for loop ends
Exhausted ==
    /\ pc = "lines"
    /\ LitFrame
    /\ pos > Len(input)
    /\ pc' = "return"
    /\ UNCHANGED << input, pos, n_clauses, n_vars, clauses, weights, hard_weight,
                    is_wcnf, result >>

\* clauses.into_iter().zip(weights).collect()
Zip(cs, ws) ==
    [i \in 1..(IF Len(cs) < Len(ws) THEN Len(cs) ELSE Len(ws)) |-> << cs[i], ws[i] >>]

\* Assemble with the clauses whose weight is the hard weight left out of the
\* pairs
Assemble_HardClausesDropped(wcnf, nv, cs, ws, hw) ==
    IF wcnf
    THEN [variant |-> "Wcnf", n_vars |-> nv,
          clauses |-> SelectSeq(Zip(cs, ws), LAMBDA pr : hw # Some(pr[2])),
          hard_weight |-> hw]
    ELSE [variant |-> "Cnf", n_vars |-> nv, clauses |-> cs]

\* if is_wcnf { Dimacs::Wcnf {..} } else { Dimacs::Cnf {..} }
Assemble(wcnf, nv, cs, ws, hw) ==
    IF wcnf
    THEN [variant |-> "Wcnf", n_vars |-> nv, clauses |-> Zip(cs, ws), hard_weight |-> hw]
    ELSE [variant |-> "Cnf", n_vars |-> nv, clauses |-> cs]

\* the function returns the assembled value
Return ==
    /\ pc = "return"
    /\ LitFrame
    /\ result' = Assemble(is_wcnf, n_vars, clauses, weights, hard_weight)
    /\ pc' = "done"
    /\ UNCHANGED << input, pos, n_clauses, n_vars, clauses, weights, hard_weight, is_wcnf >>

Next ==
    \/ ReadBlank
    \/ ReadComment
    \/ ReadHeader
    \/ ReadClause
    \/ Exhausted
    \/ Return

Spec == Init /\ [][Next]_vars

SpecNum == InitNum /\ [][Next]_vars

SpecWeights == InitWeights /\ [][Next]_vars

(***************************************************************************)
(* The literal machine: the constructors and the negation of src/lib.rs    *)
(* applied to the chosen index and sign.                                   *)
(***************************************************************************)
\* the Lit operations leave the LBool values alone, and conversely
LBoolFrame == UNCHANGED << arg_bool, lbools, lbool_pc >>
LitOnlyFrame == UNCHANGED << arg_index, arg_sign, lits, lit_pc >>

\* Lit::new(Var::new(index), sign), with the overflow behaviour of the build
MakeWith(l) ==
    /\ lit_pc = "start"
    /\ ParserFrame
    /\ IF overflow_checks /\ Lit_new_overflows(Var_new(arg_index), arg_sign)
       THEN lit_pc' = "panicked" /\ lits' = lits
       ELSE lit_pc' = "made" /\ lits' = << l >>
    /\ LBoolFrame
    /\ UNCHANGED << arg_index, arg_sign >>

\* Lit::new(Var::new(arg_index), arg_sign)
MakeLit == MakeWith(Lit_new(Var_new(arg_index), arg_sign))

\* Var::new(arg_index).pos_lit()
MakePosLit ==
    /\ arg_sign = FALSE
    /\ MakeWith(Var_pos_lit(Var_new(arg_index)))

\* Var::new(arg_index).neg_lit()
MakeNegLit ==
    /\ arg_sign = TRUE
    /\ MakeWith(Var_neg_lit(Var_new(arg_index)))

\* UNDEF_LIT
TakeUndef ==
    /\ lit_pc = "start"
    /\ ParserFrame
    /\ lit_pc' = "undef"
    /\ lits' = << UNDEF_LIT >>
    /\ LBoolFrame
    /\ UNCHANGED << arg_index, arg_sign >>

\* !lit, on the newest literal
Negate ==
    /\ lit_pc \in { "made", "undef" }
    /\ Len(lits) <= MaxNot
    /\ ParserFrame
    /\ lits' = Append(lits, Lit_not(lits[Len(lits)]))
    /\ LBoolFrame
    /\ UNCHANGED << arg_index, arg_sign, lit_pc >>

\* LBool::True, LBool::False or LBool::Undef
TakeLBool ==
    /\ lbool_pc = "start"
    /\ ParserFrame
    /\ LitOnlyFrame
    /\ \E x \in LBool : lbools' = << x >>
    /\ lbool_pc' = "variant"
    /\ UNCHANGED arg_bool

\* LBool::from(arg_bool)
FromBool ==
    /\ lbool_pc = "start"
    /\ ParserFrame
    /\ LitOnlyFrame
    /\ lbools' = << LBool_from(arg_bool) >>
    /\ lbool_pc' = "from"
    /\ UNCHANGED arg_bool

\* !x, on the newest LBool
NegateLBool ==
    /\ lbool_pc \in { "from", "variant" }
    /\ Len(lbools) <= MaxNot
    /\ ParserFrame
    /\ LitOnlyFrame
    /\ lbools' = Append(lbools, LBool_not(lbools[Len(lbools)]))
    /\ UNCHANGED << arg_bool, lbool_pc >>

NextLit ==
    \/ MakeLit
    \/ MakePosLit
    \/ MakeNegLit
    \/ TakeUndef
    \/ Negate
    \/ TakeLBool
    \/ FromBool
    \/ NegateLBool

SpecLit == InitLit /\ [][NextLit]_vars

(***************************************************************************)
(* Vocabulary of the properties: the input text read as the DIMACS format  *)
(* describes it (whitespace-separated fields, decimal numerals), and the   *)
(* value a whole stream yields.                                            *)
(***************************************************************************)
\* last index of the run of non-whitespace characters that starts at i
RECURSIVE FieldEnd(_, _)
FieldEnd(s, i) ==
    IF i <= Len(s) /\ ~IsSpace(s[i]) THEN FieldEnd(s, i + 1) ELSE i - 1

\* the whitespace-separated fields of s from index i on
RECURSIVE FieldsFrom(_, _)
FieldsFrom(s, i) ==
    LET j == SkipSpace(s, i)
        e == FieldEnd(s, j)
    IN  IF j > Len(s) THEN << >>
        ELSE << SubSeq(s, j, e) >> \o FieldsFrom(s, e + 1)

Fields(s) == FieldsFrom(s, 1)

\* a decimal numeral of at most nine digits, with an optional minus sign
SmallNumeral(f) ==
    LET d == IF Len(f) >= 1 /\ f[1] = "-" THEN SubSeq(f, 2, Len(f)) ELSE f
    IN  /\ Len(d) \in 1..9
        /\ \A i \in 1..Len(d) : IsDigit(d[i])

RECURSIVE NatOf(_, _)
NatOf(d, n) == IF n = 0 THEN 0 ELSE NatOf(d, n - 1) * 10 + DigitVal(d[n])

\* the integer a small numeral denotes
IntOf(f) ==
    IF f[1] = "-" THEN -NatOf(SubSeq(f, 2, Len(f)), Len(f) - 1) ELSE NatOf(f, Len(f))

\* the literal of the nonzero integer n: index 2 * (|n| - 1) + (1 if n < 0)
LitOfInt(n) ==
    FromNat(2 * ((IF n < 0 THEN -n ELSE n) - 1) + (IF n < 0 THEN 1 ELSE 0))

\* the literals of the nonzero numerals among fields i.., left to right
RECURSIVE LitsOfFields(_, _)
LitsOfFields(f, i) ==
    IF i > Len(f) THEN << >>
    ELSE IF IntOf(f[i]) = 0 THEN LitsOfFields(f, i + 1)
    ELSE << LitOfInt(IntOf(f[i])) >> \o LitsOfFields(f, i + 1)

\* a line that is blank, or whose first non-whitespace character is c
BlankOrComment(l) ==
    LET j == SkipSpace(l, 1) IN j > Len(l) \/ l[j] = "c"

\* a line whose first non-whitespace character is p
HeaderLike(l) ==
    LET j == SkipSpace(l, 1) IN j <= Len(l) /\ l[j] = "p"

\* a line that is neither: the reader takes it as a clause
ClauseLike(l) == ~BlankOrComment(l) /\ ~HeaderLike(l)

\* a line made of small numerals only
NumeralLine(l) ==
    LET f == Fields(l) IN Len(f) >= 1 /\ \A i \in 1..Len(f) : SmallNumeral(f[i])

\* `p <keyword> <n_vars> <n_clauses>` with small numbers and nothing after them
PlainHeader(l, keyword) ==
    LET f == Fields(l)
    IN  /\ Len(f) = 4
        /\ f[1] = << "p" >>
        /\ f[2] = keyword
        /\ SmallNumeral(f[3]) /\ f[3][1] # "-"
        /\ SmallNumeral(f[4]) /\ f[4][1] # "-"

KW_CNF == << "c", "n", "f" >>
KW_WCNF == << "w", "c", "n", "f" >>

\* the number of elements of q that satisfy Test
CountIn(q, Test(_)) == Cardinality({ i \in 1..Len(q) : Test(q[i]) })

\* the index in q of the n-th element that satisfies Test (n >= 1, it exists)
NthIndex(q, Test(_), n) ==
    CHOOSE i \in 1..Len(q) :
        Test(q[i]) /\ Cardinality({ j \in 1..i : Test(q[j]) }) = n

\* what parse_dimacs_from_buf_reader makes of the stream lines, from line i on
\* with the locals st: the loop body applied line by line
RECURSIVE RunFrom(_, _, _, _)
RunFrom(lines, i, st, checks) ==
    IF i > Len(lines)
    THEN [pc |-> "done",
          result |-> Assemble(st.is_wcnf, st.n_vars, st.clauses, st.weights,
                              st.hard_weight)]
    ELSE LET line == Trim(lines[i])
         IN  IF Len(line) = 0 \/ StartsWith(line, "c")
             THEN RunFrom(lines, i + 1, st, checks)
             ELSE IF StartsWith(line, "p")
             THEN LET h == HeaderEffect(line, st)
                  IN  IF h.ok
                      THEN RunFrom(lines, i + 1,
                                   [st EXCEPT !.n_vars = h.n_vars,
                                              !.n_clauses = h.n_clauses,
                                              !.is_wcnf = h.is_wcnf,
                                              !.hard_weight = h.hard_weight], checks)
                      ELSE [pc |-> "panicked", result |-> Pending]
             ELSE LET r == ClauseLoop(CapturesIter(line, 1), 1, << >>, USIZE_ZERO,
                                      st.is_wcnf, checks)
                      st2 == [st EXCEPT !.clauses = Append(st.clauses, r.cl),
                                        !.weights = Append(st.weights, r.weight)]
                  IN  IF ~r.ok THEN [pc |-> "panicked", result |-> Pending]
                      ELSE IF FromNat(Len(st2.clauses)) = st2.n_clauses
                      THEN RunFrom(lines, Len(lines) + 1, st2, checks)
                      ELSE RunFrom(lines, i + 1, st2, checks)

Run(lines, checks) ==
    RunFrom(lines, 1,
            [n_clauses |-> USIZE_ZERO, n_vars |-> USIZE_ZERO, clauses |-> << >>,
             weights |-> << >>, hard_weight |-> None, is_wcnf |-> FALSE], checks)

\* the parse is over: the value was returned, or the parse panicked
Over == pc \in { "done", "panicked" }

(***************************************************************************)
(* C1                                                                      *)
(***************************************************************************)
\* a clause line `w l1 ... lk 0`: a weight, nonzero literals, a final 0
WeightedClauseLine(l) ==
    LET f == Fields(l)
    IN  /\ Len(f) >= 2
        /\ NumeralLine(l)
        /\ f[1][1] # "-"
        /\ IntOf(f[Len(f)]) = 0
        /\ \A i \in 2..(Len(f) - 1) : IntOf(f[i]) # 0

\* a stream that is a `p wcnf n m` header followed by such clause lines only
C1_Shape ==
    /\ Len(input) >= 1
    /\ PlainHeader(input[1], KW_WCNF)
    /\ \A j \in 2..Len(input) : WeightedClauseLine(input[j])

\* the (clause, weight) pair of a clause line: the first field is the weight,
\* the other nonzero fields are the literals
PairOfLine(l) ==
    LET f == Fields(l) IN << LitsOfFields(f, 2), FromNat(IntOf(f[1])) >>

\* the Wcnf value with one pair for each of the first cnt clause lines
C1_Value(cnt) ==
    [variant |-> "Wcnf",
     n_vars |-> FromNat(IntOf(Fields(input[1])[3])),
     hard_weight |-> None,
     clauses |-> [j \in 1..cnt |-> PairOfLine(input[j + 1])]]

\* the clause lines read before the stop: the declared m of them, when m >= 1
\* and more than m follow the header, and all of them otherwise
C1_Count ==
    LET m == IntOf(Fields(input[1])[4])
        k == Len(input) - 1
    IN  IF m >= 1 /\ m < k THEN m ELSE k

\* C1 as stated: on a stream that is a `p wcnf n m` header followed by clause
\* lines `w l1 ... lk 0`, the parse returns Wcnf with n_vars = n, hard_weight =
\* None and one (clause, weight) pair per clause line, in input order.
C1_AsStated ==
    (Over /\ C1_Shape) => /\ pc = "done"
                          /\ result = C1_Value(Len(input) - 1)

\* C1 amended: on such a stream the parse returns Wcnf with n_vars = n,
\* hard_weight = None and one (clause, weight) pair per clause line read, in
\* input order: the first m clause lines when m >= 1 and more than m follow,
\* all of them otherwise.  The weight is the first token of the line and is
\* no literal of the clause; the clause holds the literals of the other
\* nonzero tokens, left to right.
C1_WeightedClauses ==
    (Over /\ C1_Shape) => /\ pc = "done"
                          /\ result = C1_Value(C1_Count)

\* the repository's test: two weighted unit clauses of variable 1
C1_Witness ==
    /\ pc = "done"
    /\ input = << L_wcnf_1_2, L_2_1_0, L_3_m1_0 >>
    /\ C1_Shape
    /\ Len(result.clauses) = 2

(***************************************************************************)
(* C2                                                                      *)
(***************************************************************************)
\* a stream of `p cnf n m` headers and numeral lines only: the reader stays
\* in CNF mode
C2_Shape ==
    \A j \in 1..Len(input) : PlainHeader(input[j], KW_CNF) \/ NumeralLine(input[j])

\* the lines read so far
LinesRead == SubSeq(input, 1, pos - 1)

\* n_vars of the last `p cnf` header among the lines q (0 when there is none)
LastCnfVars(q) ==
    LET hs == { j \in 1..Len(q) : PlainHeader(q[j], KW_CNF) }
    IN  IF hs = { } THEN USIZE_ZERO
        ELSE FromNat(IntOf(Fields(q[CHOOSE j \in hs : \A k \in hs : k <= j])[3]))

\* the clauses of the numeral lines among q, every field a literal
RECURSIVE CnfClauses(_, _)
CnfClauses(q, j) ==
    IF j > Len(q) THEN << >>
    ELSE IF NumeralLine(q[j])
    THEN << LitsOfFields(Fields(q[j]), 1) >> \o CnfClauses(q, j + 1)
    ELSE CnfClauses(q, j + 1)

\* C2: in CNF mode every token of a clause line is a literal, a nonzero token n
\* being the positive literal of variable |n| - 1 when n > 0 and the negative
\* one when n < 0; literals keep their order in the line, clauses keep the
\* order of the lines, and the result is the Cnf variant, clauses without
\* weights, n_vars as in the header.
C2_CnfLiterals ==
    (Over /\ C2_Shape) =>
        /\ pc = "done"
        /\ result = [variant |-> "Cnf",
                     n_vars |-> LastCnfVars(LinesRead),
                     clauses |-> CnfClauses(LinesRead, 1)]

\* the example of the specification: `p cnf 2 1` then `1 -2 0`
C2_Witness ==
    /\ pc = "done"
    /\ input = << L_cnf_2_1, L_1_m2_0 >>
    /\ result = [variant |-> "Cnf", n_vars |-> FromNat(2),
                 clauses |-> << << Var_pos_lit(Var_new(FromNat(0))),
                                   Var_neg_lit(Var_new(FromNat(1))) >> >>]

(***************************************************************************)
(* C3                                                                      *)
(***************************************************************************)
\* `p cnf <n_vars> <n_clauses>` or `p wcnf <n_vars> <n_clauses> [<hard_weight>]`
\* with small numbers
WellFormedHeader(l) ==
    LET f == Fields(l)
    IN  /\ Len(f) \in { 4, 5 }
        /\ f[1] = << "p" >>
        /\ f[2] \in { KW_CNF, KW_WCNF }
        /\ Len(f) = 5 => f[2] = KW_WCNF
        /\ \A i \in 3..Len(f) : SmallNumeral(f[i]) /\ f[i][1] # "-"

\* the clause count a well-formed header declares
DeclaredCount(l) == IntOf(Fields(l)[4])

\* a stream with exactly one header line, well formed, before every clause line
OneHeaderFirst ==
    /\ CountIn(input, HeaderLike) = 1
    /\ LET h == NthIndex(input, HeaderLike, 1)
       IN  /\ WellFormedHeader(input[h])
           /\ \A j \in 1..(h - 1) : ~ClauseLike(input[j])

TheHeader == input[NthIndex(input, HeaderLike, 1)]

\* ... and with more clause lines than the header declares
C3_Shape ==
    /\ OneHeaderFirst
    /\ CountIn(input, ClauseLike) > DeclaredCount(TheHeader)

\* C3 as stated: whenever the clause lines outnumber the declared count, the
\* result holds exactly the declared count of clauses.
C3_AsStated ==
    (pc = "done" /\ C3_Shape) => Len(result.clauses) = DeclaredCount(TheHeader)

\* C3 amended: when the header declares a count m >= 1 and more than m clause
\* lines follow, parsing stops right after the m-th clause line: the result
\* holds exactly m clauses, the same value as parsing the stream cut after
\* that line, and no later line is read.
C3_StopsAtDeclaredCount ==
    (pc = "done" /\ C3_Shape /\ DeclaredCount(TheHeader) >= 1) =>
        LET m == DeclaredCount(TheHeader)
            cut == NthIndex(input, ClauseLike, m)
        IN  /\ Len(result.clauses) = m
            /\ pos = cut + 1
            /\ pos <= Len(input)
            /\ result = Run(SubSeq(input, 1, cut), overflow_checks).result

\* one clause declared, two given: the second is never read
C3_Witness ==
    /\ pc = "done"
    /\ input = << L_cnf_2_1, L_1_m2_0, L_2_1_0 >>
    /\ C3_Shape
    /\ Len(result.clauses) = 1
    /\ pos = 3

(***************************************************************************)
(* C4                                                                      *)
(***************************************************************************)
\* the well-formed headers among the lines read
HeadersRead == { j \in 1..(pos - 1) : WellFormedHeader(input[j]) }

\* C4 as stated: the result has the format of the last matched header, Cnf
\* after `p cnf` (even when a `p wcnf` came before), Wcnf after `p wcnf`.
C4_AsStated ==
    (pc = "done" /\ HeadersRead # { }) =>
        LET last == CHOOSE j \in HeadersRead : \A k \in HeadersRead : k <= j
        IN  result.variant =
                IF Fields(input[last])[2] = KW_CNF THEN "Cnf" ELSE "Wcnf"

(***************************************************************************)
(* C5                                                                      *)
(***************************************************************************)
NoHeader == \A j \in 1..Len(input) : ~HeaderLike(input[j])

\* C5 as stated: with no header line the parse does not fail and returns Cnf
\* with n_vars = 0 and an empty clause sequence.
C5_AsStated ==
    (Over /\ NoHeader) =>
        /\ pc = "done"
        /\ result = [variant |-> "Cnf", n_vars |-> USIZE_ZERO, clauses |-> << >>]

\* C5 amended: with no header line the parse does not fail for that reason and
\* returns Cnf with n_vars = 0 and one clause per clause line of the stream, in
\* input order, every token a literal: the clause sequence is empty exactly
\* when the stream has no clause line.
C5_NoHeaderDefaults ==
    (Over /\ NoHeader) =>
        /\ pc = "done"
        /\ result.variant = "Cnf"
        /\ result.n_vars = USIZE_ZERO
        /\ Len(result.clauses) = CountIn(input, ClauseLike)
        /\ \A i \in 1..Len(result.clauses) :
               LET l == input[NthIndex(input, ClauseLike, i)]
               IN  NumeralLine(l) => result.clauses[i] = LitsOfFields(Fields(l), 1)

\* two clause lines around a comment, no header
C5_Witness ==
    /\ pc = "done"
    /\ input = << L_2_1_0, L_comment, L_3_m1_0 >>
    /\ NoHeader
    /\ Len(result.clauses) = 2

(***************************************************************************)
(* C10                                                                     *)
(***************************************************************************)
\* the stream without its blank and comment lines
RECURSIVE Strip(_)
Strip(q) ==
    IF q = << >> THEN << >>
    ELSE IF BlankOrComment(Head(q)) THEN Strip(Tail(q))
    ELSE << Head(q) >> \o Strip(Tail(q))

\* C10: the outcome of a parse (the value returned, or the panic) is the
\* outcome of parsing the stream with every blank line and every comment line
\* removed, wherever those lines stand.
C10_CommentsIgnored ==
    Over => [pc |-> pc, result |-> result] = Run(Strip(input), overflow_checks)

\* a comment before the header and a blank line before the clause
C10_Witness ==
    /\ pc = "done"
    /\ \E j \in 1..Len(input) : input[j] = L_comment
    /\ \E j \in 1..Len(input) : input[j] = L_blank
    /\ Len(Strip(input)) < Len(input)
    /\ Len(result.clauses) = 1

(***************************************************************************)
(* C9                                                                      *)
(***************************************************************************)
I32_MIN_TOKEN == << "-", "2", "1", "4", "7", "4", "8", "3", "6", "4", "8" >>

\* a clause line with a token that does not fit its role: a literal outside
\* i32 or a first token outside both i32 and u64, or the token -2147483648,
\* whose absolute value is no i32
UnfitClauseLine(l) ==
    /\ ClauseLike(l)
    /\ LET toks == CapturesIter(Trim(l), 1)
       IN  \E i \in 1..Len(toks) :
              \/ toks[i] = I32_MIN_TOKEN
              \/ i > 1 /\ ~ParseI32(toks[i]).ok
              \/ i = 1 /\ ~ParseI32(toks[i]).ok /\ ~ParseU64(toks[i]).ok

\* a matched header with a number outside usize / u64
UnfitHeader(l) ==
    LET m == IF re_cnf(Trim(l)).matched THEN re_cnf(Trim(l)) ELSE re_wcnf(Trim(l))
    IN  /\ m.matched
        /\ \E i \in 1..Len(m.caps) : ~ParseU64(m.caps[i]).ok

\* C9 as stated: a parse that read a line with a token unfit for its role
\* never returns a value.
C9_AsStated ==
    pc = "done" =>
        \A j \in 1..(pos - 1) : ~UnfitClauseLine(input[j]) /\ ~UnfitHeader(input[j])

(***************************************************************************)
(* C6                                                                      *)
(***************************************************************************)
\* index <= usize::MAX >> 1: twice the index and the sign bit fit in a usize
Encodable(k) == k[4] < LIMB_BASE \div 2

\* the literal made from (arg_index, arg_sign) reads back as that pair, and no
\* other pair with an index among idxs, if it makes a literal, has its idx
RoundTrip(idxs) ==
    /\ Var_index(Lit_var(lits[1])) = arg_index
    /\ Lit_sign(lits[1]) = arg_sign
    /\ \A k \in idxs, s \in BOOLEAN :
          (/\ << k, s >> # << arg_index, arg_sign >>
           /\ ~(overflow_checks /\ Lit_new_overflows(Var_new(k), s))) =>
              Lit_index(Lit_new(Var_new(k), s)) # Lit_index(lits[1])

\* C6 as stated: for every usize index k and every sign s the constructors
\* yield a literal that reads back as (k, s), and idx is injective.
C6_AsStated ==
    /\ lit_pc # "panicked"
    /\ lit_pc = "made" => RoundTrip(IndexPool)

\* C6 amended: for every index k <= usize::MAX >> 1 (k < 2^63) and every
\* sign s, Lit::new(Var::new(k), s), and pos_lit / neg_lit likewise, is made
\* without overflow, reads back as var().index() == k and sign() == s, and
\* shares its idx with no other such pair.
C6_RoundTrip ==
    Encodable(arg_index) =>
        /\ lit_pc # "panicked"
        /\ lit_pc = "made" => RoundTrip({ k \in IndexPool : Encodable(k) })

\* the negative literal of an index just below 2^63
C6_Witness ==
    /\ lit_pc = "made"
    /\ Encodable(arg_index)
    /\ arg_index[4] > 0
    /\ arg_sign
    /\ Len(lits) = 1

(***************************************************************************)
(* C7                                                                      *)
(***************************************************************************)
\* C7 as stated: no literal made from an index and a sign equals UNDEF_LIT.
C7_AsStated ==
    lit_pc = "made" => lits[1] # UNDEF_LIT

(***************************************************************************)
(* C8                                                                      *)
(***************************************************************************)
\* C8: negation is defined on every literal, the sentinel included; the
\* negated literal has the same variable and the opposite sign, and negating
\* twice gives the literal back.
C8_NegationInvolution ==
    \A i \in 1..Len(lits) :
        /\ i + 1 <= Len(lits) =>
              /\ Lit_var(lits[i + 1]) = Lit_var(lits[i])
              /\ Lit_sign(lits[i + 1]) # Lit_sign(lits[i])
        /\ i + 2 <= Len(lits) => lits[i + 2] = lits[i]

\* the sentinel negated twice
C8_Witness ==
    /\ lit_pc = "undef"
    /\ Len(lits) = 3
    /\ lits[1] = UNDEF_LIT
    /\ lits[2] # UNDEF_LIT
    /\ lits[3] = UNDEF_LIT

(***************************************************************************)
(* C11                                                                     *)
(***************************************************************************)
\* a line that starts with p and matches neither header pattern
MatchesNeither(l) ==
    /\ HeaderLike(l)
    /\ ~re_cnf(Trim(l)).matched
    /\ ~re_wcnf(Trim(l)).matched

\* C11: reading a line that starts with p and matches neither `p cnf` nor
\* `p wcnf` does not abort the parse and changes nothing but the position in
\* the stream: format, n_vars, expected clause count, hard_weight, clauses and
\* weights are what they were, and no clause is appended for the line.
C11_UnmatchedHeaderIgnored ==
    [][(Reading /\ MatchesNeither(input[pos])) =>
          /\ pc' = "lines"
          /\ pos' = pos + 1
          /\ UNCHANGED << n_clauses, n_vars, clauses, weights, hard_weight, is_wcnf,
                          result >>]_vars

\* `p cnf x` between a wcnf header and a clause: header values and the clause
\* are those of the stream without it
C11_Witness ==
    /\ pc = "done"
    /\ input = << L_wcnf_1_2, L_p_bad, L_2_1_0 >>
    /\ MatchesNeither(input[2])
    /\ result = [variant |-> "Wcnf", n_vars |-> FromNat(1), hard_weight |-> None,
                 clauses |-> << << << Var_pos_lit(Var_new(FromNat(0))) >>,
                                   FromNat(2) >> >>]

(***************************************************************************)
(* C12                                                                     *)
(***************************************************************************)
\* a well-formed `p wcnf` header
WcnfHeader(l) == WellFormedHeader(l) /\ Fields(l)[2] = KW_WCNF

\* the last line of q that satisfies Test (there is one)
LastIn(q, Test(_)) ==
    q[CHOOSE j \in 1..Len(q) : Test(q[j]) /\ \A k \in (j + 1)..Len(q) : ~Test(q[k])]

\* the hard weight a `p wcnf` header declares: its third number, if any
DeclaredHard(l) ==
    LET f == Fields(l)
    IN  IF Len(f) = 5 THEN Some(FromNat(IntOf(f[5]))) ELSE None

\* a well-formed `p cnf` header
CnfHeader(l) == WellFormedHeader(l) /\ Fields(l)[2] = KW_CNF

\* a `p wcnf` header precedes line j of q
WcnfInForce(q, j) == \E k \in 1..(j - 1) : WcnfHeader(q[k])

\* no `p cnf` header comes after a `p wcnf` header in q: the format in force
\* at each line is that of the header before it (see C4 for the other streams)
ModeClear(q) ==
    \A a \in 1..Len(q) : \A b \in (a + 1)..Len(q) :
        ~(WcnfHeader(q[a]) /\ CnfHeader(q[b]))

\* a line without any digit: the token pattern finds nothing in it
TokenFree(l) == \A i \in 1..Len(l) : ~IsDigit(l[i])

\* the (clause, weight) pair of clause line j of q, read with the format in
\* force at that line
PairAt(q, j) ==
    IF TokenFree(q[j]) THEN << << >>, USIZE_ZERO >>
    ELSE IF WcnfInForce(q, j) THEN PairOfLine(q[j])
    ELSE << LitsOfFields(Fields(q[j]), 1), USIZE_ZERO >>

\* the pairs of the clause lines of q from line j on, in order
RECURSIVE PairsOf(_, _)
PairsOf(q, j) ==
    IF j > Len(q) THEN << >>
    ELSE IF ClauseLike(q[j]) THEN << PairAt(q, j) >> \o PairsOf(q, j + 1)
    ELSE PairsOf(q, j + 1)

\* the lines read are well-formed headers, numeral lines, token-free lines,
\* comments and blanks
PlainLinesRead ==
    \A j \in 1..(pos - 1) :
        /\ HeaderLike(input[j]) => WellFormedHeader(input[j])
        /\ ClauseLike(input[j]) => NumeralLine(input[j]) \/ TokenFree(input[j])

\* C12: the Wcnf result carries the hard weight of the last `p wcnf` header
\* read, Some(h) when that header has a third number h and None when it has
\* none, and it holds one pair per clause line read, whatever its weight: a
\* clause whose weight equals the hard weight is kept like any other.
C12_HardWeight ==
    (pc = "done" /\ PlainLinesRead /\ CountIn(LinesRead, WcnfHeader) >= 1) =>
        /\ ModeClear(LinesRead) => result.variant = "Wcnf"
        /\ result.variant = "Wcnf" =>
              /\ result.hard_weight = DeclaredHard(LastIn(LinesRead, WcnfHeader))
              /\ Len(result.clauses) = CountIn(LinesRead, ClauseLike)
              /\ ModeClear(LinesRead) => result.clauses = PairsOf(LinesRead, 1)

\* `p wcnf 3 5 10`, then a clause of weight 10 and a clause of weight 2
C12_Witness ==
    /\ pc = "done"
    /\ input = << L_wcnf_3_5_10, L_10_1_0, L_2_1_0 >>
    /\ result.hard_weight = Some(FromNat(10))
    /\ Len(result.clauses) = 2
    /\ result.clauses[1][2] = FromNat(10)
    /\ result.clauses[2][2] = FromNat(2)

(***************************************************************************)
(* C13                                                                     *)
(***************************************************************************)
\* a stream of well-formed headers, comments, blanks, token-free lines and
\* numeral lines, the first numeral of a line read as a weight being unsigned
PlainInput ==
    \A j \in 1..Len(input) :
        /\ HeaderLike(input[j]) => WellFormedHeader(input[j])
        /\ ClauseLike(input[j]) =>
              \/ TokenFree(input[j])
              \/ /\ NumeralLine(input[j])
                 /\ WcnfInForce(input, j) => Fields(input[j])[1][1] # "-"

\* n_vars of the last well-formed header among the lines q, 0 without one
LastDeclaredVars(q) ==
    IF CountIn(q, WellFormedHeader) = 0 THEN USIZE_ZERO
    ELSE FromNat(IntOf(Fields(LastIn(q, WellFormedHeader))[3]))

\* the clauses of either result variant, without their weights
ClausesOf(r) ==
    IF r.variant = "Wcnf" THEN [i \in 1..Len(r.clauses) |-> r.clauses[i][1]]
    ELSE r.clauses

\* some literal of the clauses cs names a variable index >= nv
NamesBeyond(cs, nv) ==
    \E i \in 1..Len(cs) : \E k \in 1..Len(cs[i]) :
        UGeq(Var_index(Lit_var(cs[i][k])), nv)

\* C13: n_vars of the result is the number the last header read declares, and
\* no literal is checked against it: on a stream of well-formed lines the
\* parse does not fail, and every clause line read gives its literals as
\* written, those of variable indices >= n_vars included.
C13_NVarsUnchecked ==
    (Over /\ PlainInput) =>
        /\ pc = "done"
        /\ result.n_vars = LastDeclaredVars(LinesRead)
        /\ Len(result.clauses) = CountIn(LinesRead, ClauseLike)
        /\ ModeClear(LinesRead) =>
              LET ps == PairsOf(LinesRead, 1)
              IN  ClausesOf(result) = [i \in 1..Len(ps) |-> ps[i][1]]

\* `p cnf 2 1` then `10 1 0`: two variables declared, the tenth one used
C13_Witness ==
    /\ pc = "done"
    /\ input = << L_cnf_2_1, L_10_1_0 >>
    /\ result.n_vars = FromNat(2)
    /\ result.clauses = << << Var_pos_lit(Var_new(FromNat(9))),
                              Var_pos_lit(Var_new(FromNat(0))) >> >>
    /\ NamesBeyond(result.clauses, result.n_vars)

(***************************************************************************)
(* C14                                                                     *)
(***************************************************************************)
\* C14: the negation of an LBool is False for True, True for False and Undef
\* for Undef, and negating twice gives the value back; LBool::from(b) is True
\* exactly when b is true, False exactly when b is false, and never Undef.
C14_LBoolLaws ==
    /\ \A i \in 1..Len(lbools) :
          /\ i + 1 <= Len(lbools) =>
                /\ lbools[i] = "True" => lbools[i + 1] = "False"
                /\ lbools[i] = "False" => lbools[i + 1] = "True"
                /\ lbools[i] = "Undef" => lbools[i + 1] = "Undef"
          /\ i + 2 <= Len(lbools) => lbools[i + 2] = lbools[i]
    /\ lbool_pc = "from" =>
          /\ lbools[1] = "True" <=> arg_bool
          /\ lbools[1] = "False" <=> ~arg_bool
          /\ lbools[1] # "Undef"

\* LBool::from(true) negated twice
C14_Witness ==
    /\ lbool_pc = "from"
    /\ arg_bool
    /\ lbools = << "True", "False", "True" >>

(***************************************************************************)
(* C15                                                                     *)
(***************************************************************************)
\* C15: every clause line read appends exactly one clause: the nonzero
\* numerals of the line in order, those after a `0` included, and the empty
\* clause for a line without literal tokens.  Each clause line, empty clause or
\* not, counts toward the declared clause count: with one header declaring
\* m >= 1 before at least m clause lines, the result holds m clauses.
C15_OneClausePerLine ==
    (pc = "done" /\ PlainLinesRead) =>
        LET ps == PairsOf(LinesRead, 1)
        IN  /\ Len(clauses) = CountIn(LinesRead, ClauseLike)
            /\ ModeClear(LinesRead) => clauses = [i \in 1..Len(ps) |-> ps[i][1]]
            /\ ClausesOf(result) = clauses
            /\ (/\ OneHeaderFirst
                /\ DeclaredCount(TheHeader) >= 1
                /\ CountIn(input, ClauseLike) >= DeclaredCount(TheHeader))
                  => Len(clauses) = DeclaredCount(TheHeader)

\* two clauses declared: a line without tokens gives the empty clause and
\* counts as the first; `1 0 2` (weight 1) gives the clause of literal 2 and
\* is the second, at which the reader stops
C15_Witness ==
    /\ pc = "done"
    /\ input = << L_wcnf_1_2, L_no_token, L_1_0_2 >>
    /\ n_clauses = FromNat(2)
    /\ clauses = << << >>, << Var_pos_lit(Var_new(FromNat(1))) >> >>
    /\ result.clauses = << << << >>, USIZE_ZERO >>,
                           << << Var_pos_lit(Var_new(FromNat(1))) >>, FromNat(1) >> >>

(***************************************************************************)
(* C16                                                                     *)
(***************************************************************************)
\* a line that matches one of the two header patterns
MatchedHeader(l) ==
    HeaderLike(l) /\ (re_cnf(Trim(l)).matched \/ re_wcnf(Trim(l)).matched)

\* the clause count a matched header declares
MatchedCount(l) ==
    LET cnf == re_cnf(Trim(l))
    IN  ParseUsize((IF cnf.matched THEN cnf ELSE re_wcnf(Trim(l))).caps[2]).val

\* the expected clause count when line j of the stream is read: that of the
\* last matched header before it, 0 without one
CountInForce(j) ==
    LET q == SubSeq(input, 1, j - 1)
    IN  IF CountIn(q, MatchedHeader) = 0 THEN USIZE_ZERO
        ELSE MatchedCount(LastIn(q, MatchedHeader))

\* the clause lines whose clause makes the collected count equal the expected
\* count
StopLines ==
    { j \in 1..Len(input) :
        /\ ClauseLike(input[j])
        /\ FromNat(CountIn(SubSeq(input, 1, j), ClauseLike)) = CountInForce(j) }

\* C16: once a clause line makes the collected count equal the expected count,
\* no later line is read or interpreted: the parse returns what the stream cut
\* after that line yields, whatever follows it, be it a header or a line with
\* a token that cannot be parsed.
C16_NothingAfterStop ==
    (Over /\ StopLines # { }) =>
        LET stop == CHOOSE j \in StopLines : \A k \in StopLines : j <= k
            cut == Run(SubSeq(input, 1, stop), overflow_checks)
        IN  cut.pc = "done" =>
               /\ pc = "done"
               /\ pos = stop + 1
               /\ result = cut.result

\* one clause declared and read; the line after it holds a token beyond u64
\* and i32 and is never parsed
C16_Witness ==
    /\ pc = "done"
    /\ input = << L_cnf_2_1, L_2_1_0, L_u64_over >>
    /\ StopLines = { 2 }
    /\ pos = 3
    /\ result = [variant |-> "Cnf", n_vars |-> FromNat(2),
                 clauses |-> << << Var_pos_lit(Var_new(FromNat(1))),
                                   Var_pos_lit(Var_new(FromNat(0))) >> >>]

(***************************************************************************)
(* C17                                                                     *)
(***************************************************************************)
\* C17: the weight rule is applied line by line with the format in force at
\* the line.  A clause line read before the first `p wcnf` header has all its
\* tokens, the first included, read as literals and is recorded with weight
\* 0; a clause line read after one (and no `p cnf` header since) has its first
\* token recorded as weight and the others read as literals.  When the result
\* is Wcnf, a clause read before the header is paired with weight 0 in it.
C17_FormatAtTheLine ==
    (pc = "done" /\ PlainLinesRead) =>
        /\ Len(clauses) = CountIn(LinesRead, ClauseLike)
        /\ Len(weights) = Len(clauses)
        /\ \A i \in 1..Len(clauses) :
              LET j == NthIndex(LinesRead, ClauseLike, i)
                  f == Fields(input[j])
              IN  NumeralLine(input[j]) =>
                     IF WcnfInForce(input, j)
                     THEN ModeClear(SubSeq(input, 1, j)) =>
                             /\ clauses[i] = LitsOfFields(f, 2)
                             /\ weights[i] = FromNat(IntOf(f[1]))
                     ELSE /\ clauses[i] = LitsOfFields(f, 1)
                          /\ weights[i] = USIZE_ZERO
                          /\ result.variant = "Wcnf" =>
                                result.clauses[i] = << LitsOfFields(f, 1), USIZE_ZERO >>

\* `2 1 0` before `p wcnf 1 2`, `3 -1 0` after it: the first clause holds the
\* literals of 2 and 1 with weight 0, the second the literal of -1 with
\* weight 3
C17_Witness ==
    /\ pc = "done"
    /\ input = << L_2_1_0, L_wcnf_1_2, L_3_m1_0 >>
    /\ result = [variant |-> "Wcnf", n_vars |-> FromNat(1), hard_weight |-> None,
                 clauses |-> << << << Var_pos_lit(Var_new(FromNat(1))),
                                      Var_pos_lit(Var_new(FromNat(0))) >>,
                                   USIZE_ZERO >>,
                                << << Var_neg_lit(Var_new(FromNat(0))) >>,
                                   FromNat(3) >> >>]

(***************************************************************************)
(* C18                                                                     *)
(***************************************************************************)
\* C18: the clause accumulator and the weight accumulator have the same
\* length at every point of the loop, one entry per clause line read.  The
\* result holds as many clauses as clause lines were read, in either
\* variant, and the i-th pair of a Wcnf result is the clause and the weight
\* recorded for the i-th clause line.
C18_AccumulatorsPaired ==
    /\ Len(clauses) = Len(weights)
    /\ pc \in { "lines", "return", "done" } =>
          Len(clauses) = CountIn(LinesRead, ClauseLike)
    /\ pc = "done" =>
          /\ Len(result.clauses) = CountIn(LinesRead, ClauseLike)
          /\ result.variant = "Wcnf" =>
                /\ \A i \in 1..Len(clauses) :
                      result.clauses[i] = << clauses[i], weights[i] >>
                /\ (PlainLinesRead /\ ModeClear(LinesRead)) =>
                      \A i \in 1..Len(clauses) :
                          result.clauses[i] =
                             PairAt(input, NthIndex(LinesRead, ClauseLike, i))

\* a clause read before the wcnf header and one read after it: two pairs
C18_Witness ==
    /\ pc = "done"
    /\ input = << L_2_1_0, L_wcnf_3_5_10, L_10_1_0 >>
    /\ Len(clauses) = 2
    /\ Len(weights) = 2
    /\ result.variant = "Wcnf"
    /\ Len(result.clauses) = 2
    /\ result.clauses[1][2] = USIZE_ZERO
    /\ result.clauses[2][2] = FromNat(10)

(***************************************************************************)
(* C19                                                                     *)
(***************************************************************************)
\* the first token of the line has a leading minus sign: the first digit of
\* the line comes right after a `-`
FirstTokenSigned(l) ==
    \E d \in 2..Len(l) :
        /\ IsDigit(l[d])
        /\ \A k \in 1..(d - 1) : ~IsDigit(l[k])
        /\ l[d - 1] = "-"

\* C19: in WCNF mode, reading a clause line whose first token has a leading
\* minus sign aborts the parse at that line: the token is stored neither as a
\* weight nor as a literal, no clause is appended and no formula is returned.
C19_SignedWeightAborts ==
    [][(Reading /\ is_wcnf /\ ClauseLike(input[pos]) /\ FirstTokenSigned(input[pos])) =>
          /\ pc' = "panicked"
          /\ pos' = pos
          /\ result' = Pending
          /\ UNCHANGED << clauses, weights >>]_vars

\* `p wcnf 1 2` then `-1 2 0`: the parse panics at the second line
C19_Witness ==
    /\ pc = "panicked"
    /\ input = << L_wcnf_1_2, L_m1_2_0 >>
    /\ pos = 2
    /\ is_wcnf
    /\ FirstTokenSigned(input[pos])
    /\ clauses = << >>
    /\ weights = << >>
    /\ result = Pending

====
